---- MODULE Spec2Model ----
(***************************************************************************)
(* The masked-input prompt of inquire (src/src/prompts/password.rs): the   *)
(* Password options builder, the PasswordPrompt state machine and its      *)
(* render / read_key / dispatch loop.                                      *)
(*                                                                         *)
(* Texts (String, &str) are sequences of code points, each code point a    *)
(* one-letter string.  Every value that is logged or compared is a flat    *)
(* sequence of strings: Option and Result values carry their tag as the    *)
(* first element.                                                          *)
(***************************************************************************)
EXTENDS Naturals, Sequences, FiniteSets

VARIABLES
    pc,            \* position of the caller / of PasswordPrompt::prompt
    message,       \* Password.message / PasswordPrompt.message
    help_message,  \* Password.help_message / PasswordPrompt.help_message
    formatter,     \* Password.formatter / PasswordPrompt.formatter
    validators,    \* Password.validators / PasswordPrompt.validators
    content,       \* PasswordPrompt.content
    error,         \* PasswordPrompt.error
    final_answer,  \* the local final_answer of PasswordPrompt::prompt
    result,        \* what the prompt call returned, None while it runs
    raw_mode,      \* the terminal is in raw mode
    calls,         \* history: the calls made by the last step, in order
    before,        \* history: content, error, raw_mode when the last step began
    declared,      \* history: the validators in the order the caller added them
    typed          \* history: the grapheme list folded over the keys read

vars == <<pc, message, help_message, formatter, validators, content, error,
          final_answer, result, raw_mode, calls, before, declared, typed>>

(***************************************************************************)
(* Bounds of the model.                                                    *)
(***************************************************************************)
MaxLen == 3

MaxValidators == 2

(***************************************************************************)
(* Option and Result values.                                               *)
(***************************************************************************)
None == <<"None">>

Some(t) == <<"Some">> \o t

Ok(t) == <<"Ok">> \o t

Err(t) == <<"Err">> \o t

IsSome(o) == o[1] = "Some"

IsOk(r) == r[1] = "Ok"

IsErr(r) == r[1] = "Err"

Unwrap(o) == Tail(o)

OperationCanceled == <<"OperationCanceled">>

IoError == <<"IO">>

(***************************************************************************)
(* Code points and their grapheme-cluster classes (UAX #29, the rules      *)
(* unicode_segmentation's graphemes(true) implements): "a" is a letter,    *)
(* "v" an Extend code point (variation selector-16), "j" the zero width    *)
(* joiner, "e" an Extended_Pictographic code point (an emoji).             *)
(***************************************************************************)
CodePoints == {"a", "v", "j", "e"}

GraphemeCat(c) ==
    CASE c = "a" -> "Any"
      [] c = "v" -> "Extend"
      [] c = "j" -> "ZWJ"
      [] c = "e" -> "ExtPict"

\* str::len counts UTF-8 bytes: U+0061, U+FE0F, U+200D, U+1F9D8.
Utf8Len(c) ==
    CASE c = "a" -> 1
      [] c = "v" -> 3
      [] c = "j" -> 3
      [] c = "e" -> 4

RECURSIVE StrLen(_)
StrLen(s) == IF s = <<>> THEN 0 ELSE Utf8Len(Head(s)) + StrLen(Tail(s))

\* GB9: no break before Extend or ZWJ.
NoBreakGB9(s, i) == GraphemeCat(s[i + 1]) \in {"Extend", "ZWJ"}

\* GB11: ExtPict Extend* ZWJ x ExtPict.
NoBreakGB11(s, i) ==
    /\ GraphemeCat(s[i + 1]) = "ExtPict"
    /\ GraphemeCat(s[i]) = "ZWJ"
    /\ \E k \in 1..(i - 1) :
          /\ GraphemeCat(s[k]) = "ExtPict"
          /\ \A m \in (k + 1)..(i - 1) : GraphemeCat(s[m]) = "Extend"

\* GB999: break everywhere else.  i is a position with a successor.
IsBoundary(s, i) == ~NoBreakGB9(s, i) /\ ~NoBreakGB11(s, i)

\* s[..].graphemes(true): the extended grapheme clusters of s, in order.
Graphemes(s) ==
    LET ends == {i \in 1..Len(s) : i = Len(s) \/ IsBoundary(s, i)}
        n == Cardinality(ends)
        endAt(k) == IF k = 0 THEN 0
                    ELSE CHOOSE i \in ends : Cardinality({j \in ends : j < i}) = k - 1
    IN  [k \in 1..n |-> SubSeq(s, endAt(k - 1) + 1, endAt(k))]

\* Iterator::take(n)
Take(seq, n) == SubSeq(seq, 1, IF n < Len(seq) THEN n ELSE Len(seq))

\* Iterator::collect::<String>() over string slices
RECURSIVE Collect(_)
Collect(gs) == IF gs = <<>> THEN <<>> ELSE Head(gs) \o Collect(Tail(gs))

\* usize::saturating_sub
SaturatingSub(a, b) == IF a >= b THEN a - b ELSE 0

(***************************************************************************)
(* Keys (crate::key::Key as PasswordPrompt matches on it).  Delete and a   *)
(* Char with the CONTROL modifier stand for the keys of the `_` arms.      *)
(***************************************************************************)
Cancel == <<"Cancel">>

Submit == <<"Submit">>

Backspace == <<"Backspace">>

Char(c, m) == <<"Char", c, m>>

Delete == <<"Delete">>

IsChar(k) == k[1] = "Char"

Keys ==
    {Cancel, Submit, Backspace, Delete, Char("a", "CONTROL")}
        \cup {Char(c, "NONE") : c \in CodePoints}

(***************************************************************************)
(* Caller-supplied functions.  A StringValidator maps the content to Ok or *)
(* to Err(message); LenRange is the validator of the test                  *)
(* input_correction_after_validation, NoEmoji rejects any content holding  *)
(* an emoji.  A StringFormatter maps the answer to the text shown by the   *)
(* cleanup frame; ECHO is the caller's formatter |s| s.                    *)
(***************************************************************************)
Validators == {"LenRange", "NoEmoji"}

Validate(v, s) ==
    CASE v = "LenRange" ->
            IF StrLen(s) > 5 /\ StrLen(s) < 10 THEN Ok(<<>>) ELSE Err(<<"Invalid">>)
      [] v = "NoEmoji" ->
            IF \E i \in 1..Len(s) : s[i] = "e" THEN Err(<<"Ascii">>) ELSE Ok(<<>>)

Formatters == {"DEFAULT_FORMATTER", "ECHO"}

\* Mutant of DEFAULT_FORMATTER: one star per code point of the answer.
DefaultFormatterPerChar(s) == [i \in 1..Len(s) |-> "*"]

DEFAULT_FORMATTER(s) == <<"*", "*", "*", "*", "*", "*", "*", "*">>

Format(f, s) ==
    CASE f = "DEFAULT_FORMATTER" -> DEFAULT_FORMATTER(s)
      [] f = "ECHO" -> s

Messages == {<<"Q", "?">>}

HelpTexts == {<<"h">>}

\* The vectors a caller may hand to with_validators.
ValidatorSlices ==
    {<<>>} \cup {<<v>> : v \in Validators}
           \cup {<<v, w>> : v \in Validators, w \in Validators}

(***************************************************************************)
(* One logged call: of a Renderer method, of a validator, of the           *)
(* formatter.  args is the tuple of argument texts, ret the value returned.*)
(***************************************************************************)
Call(op, args, ret) == [op |-> op, args |-> args, ret |-> ret]

Unit == Ok(<<>>)

(***************************************************************************)
(* PasswordPrompt                                                          *)
(***************************************************************************)
\* Mutant of on_change: Backspace pops the last code point (String::pop).
OnChangePopsChar(c, key) ==
    IF key = Backspace
    THEN SubSeq(c, 1, SaturatingSub(Len(c), 1))
    ELSE IF IsChar(key) /\ key[3] = "NONE"
    THEN Append(c, key[2])
    ELSE c

\* Mutant of on_change: Backspace counts code points, not graphemes.
OnChangeCountsChars(c, key) ==
    IF key = Backspace
    THEN LET len == Len(c)
             new_len == SaturatingSub(len, 1)
         IN  Collect(Take(Graphemes(c), new_len))
    ELSE IF IsChar(key) /\ key[3] = "NONE"
    THEN Append(c, key[2])
    ELSE c

\* Mutant of on_change: the Char arm ignores the modifiers.
OnChangeAnyModifier(c, key) ==
    IF key = Backspace
    THEN LET len == Len(Graphemes(c))
             new_len == SaturatingSub(len, 1)
         IN  Collect(Take(Graphemes(c), new_len))
    ELSE IF IsChar(key)
    THEN Append(c, key[2])
    ELSE c

\* on_change: the new content.
on_change(c, key) ==
    IF key = Backspace
    THEN LET len == Len(Graphemes(c))
             new_len == SaturatingSub(len, 1)
         IN  Collect(Take(Graphemes(c), new_len))
    ELSE IF IsChar(key) /\ key[3] = "NONE"
    THEN Append(c, key[2])
    ELSE c

\* Mutant of get_final_answer: every validator runs, the last failure wins.
RECURSIVE GetFinalAnswerLastError(_, _)
GetFinalAnswerLastError(vs, c) ==
    IF vs = <<>>
    THEN [ret |-> Ok(c), calls |-> <<>>]
    ELSE LET r == Validate(Head(vs), c)
             call == Call("validator", <<<<Head(vs)>>, c>>, r)
             rest == GetFinalAnswerLastError(Tail(vs), c)
         IN  [ret |-> IF IsErr(r) /\ IsOk(rest.ret) THEN r ELSE rest.ret,
              calls |-> <<call>> \o rest.calls]

\* Mutant of get_final_answer: an empty content is always rejected.
RECURSIVE GetFinalAnswerRequired(_, _)
GetFinalAnswerRequired(vs, c) ==
    IF c = <<>>
    THEN [ret |-> Err(<<"Required">>), calls |-> <<>>]
    ELSE IF vs = <<>>
    THEN [ret |-> Ok(c), calls |-> <<>>]
    ELSE LET r == Validate(Head(vs), c)
             call == Call("validator", <<<<Head(vs)>>, c>>, r)
         IN  IF IsErr(r)
             THEN [ret |-> r, calls |-> <<call>>]
             ELSE LET rest == GetFinalAnswerRequired(Tail(vs), c)
                  IN  [ret |-> rest.ret, calls |-> <<call>> \o rest.calls]

\* get_final_answer: the Result returned and the validator calls made.
RECURSIVE get_final_answer(_, _)
get_final_answer(vs, c) ==
    IF vs = <<>>
    THEN [ret |-> Ok(c), calls |-> <<>>]
    ELSE LET r == Validate(Head(vs), c)
             call == Call("validator", <<<<Head(vs)>>, c>>, r)
         IN  IF IsErr(r)
             THEN [ret |-> r, calls |-> <<call>>]
             ELSE LET rest == get_final_answer(Tail(vs), c)
                  IN  [ret |-> rest.ret, calls |-> <<call>> \o rest.calls]

\* Mutant of RenderCalls: the help line is printed above the question.
RenderCallsHelpFirst(msg, help, err) ==
    <<Call("reset_prompt", <<>>, Unit)>>
      \o (IF IsSome(err)
          THEN <<Call("print_error_message", <<Unwrap(err)>>, Unit)>>
          ELSE <<>>)
      \o (IF IsSome(help)
          THEN <<Call("print_help", <<Unwrap(help)>>, Unit)>>
          ELSE <<>>)
      \o <<Call("print_prompt", <<msg, None, None>>, Unit)>>
      \o <<Call("flush", <<>>, Unit)>>

\* render: the Renderer calls of one frame, when none of them fails.
RenderCalls(msg, help, err) ==
    <<Call("reset_prompt", <<>>, Unit)>>
      \o (IF IsSome(err)
          THEN <<Call("print_error_message", <<Unwrap(err)>>, Unit)>>
          ELSE <<>>)
      \o <<Call("print_prompt", <<msg, None, None>>, Unit)>>
      \o (IF IsSome(help)
          THEN <<Call("print_help", <<Unwrap(help)>>, Unit)>>
          ELSE <<>>)
      \o <<Call("flush", <<>>, Unit)>>

\* The `?` after a Renderer call: the calls made when the n-th one fails.
FailAt(cs, n) ==
    [i \in 1..n |-> IF i = n THEN [cs[i] EXCEPT !.ret = Err(IoError)] ELSE cs[i]]

\* Mutant of CleanupCalls: the cleanup frame shows the answer itself.
CleanupCallsRaw(msg, f, answer) ==
    <<Call("formatter", <<answer>>, Format(f, answer)),
      Call("cleanup", <<msg, answer>>, Unit)>>

\* Mutant of CleanupCalls: the frame is reset before the cleanup.
CleanupCallsResets(msg, f, answer) ==
    <<Call("formatter", <<answer>>, Format(f, answer)),
      Call("reset_prompt", <<>>, Unit),
      Call("cleanup", <<msg, Format(f, answer)>>, Unit)>>

\* The calls after the loop: the formatter, then Renderer::cleanup.
CleanupCalls(msg, f, answer) ==
    <<Call("formatter", <<answer>>, Format(f, answer)),
      Call("cleanup", <<msg, Format(f, answer)>>, Unit)>>

(***************************************************************************)
(* History: the grapheme list the keys read so far fold to.  A code point  *)
(* joins the last grapheme when UAX #29 forbids a break before it.         *)
(***************************************************************************)
RECURSIVE StripExtend(_)
StripExtend(g) ==
    IF g # <<>> /\ GraphemeCat(g[Len(g)]) = "Extend"
    THEN StripExtend(SubSeq(g, 1, Len(g) - 1))
    ELSE g

EndsEmojiZwj(g) ==
    /\ g # <<>>
    /\ GraphemeCat(g[Len(g)]) = "ZWJ"
    /\ LET h == StripExtend(SubSeq(g, 1, Len(g) - 1))
       IN  h # <<>> /\ GraphemeCat(h[Len(h)]) = "ExtPict"

Joins(g, c) ==
    \/ GraphemeCat(c) \in {"Extend", "ZWJ"}
    \/ GraphemeCat(c) = "ExtPict" /\ EndsEmojiZwj(g)

AppendGrapheme(t, c) ==
    IF t # <<>> /\ Joins(t[Len(t)], c)
    THEN [t EXCEPT ![Len(t)] = Append(@, c)]
    ELSE Append(t, <<c>>)

DropLastGrapheme(t) == IF t = <<>> THEN t ELSE SubSeq(t, 1, Len(t) - 1)

FoldKey(t, k) ==
    IF k = Backspace THEN DropLastGrapheme(t)
    ELSE IF IsChar(k) /\ k[3] = "NONE" THEN AppendGrapheme(t, k[2])
    ELSE t

(***************************************************************************)
(* Init: Password::new(message).                                           *)
(***************************************************************************)
Init ==
    /\ pc = "build"
    /\ message \in Messages
    /\ help_message = None
    /\ formatter = "DEFAULT_FORMATTER"
    /\ validators = <<>>
    /\ content = <<>>
    /\ error = None
    /\ final_answer = None
    /\ result = None
    /\ raw_mode = FALSE
    /\ calls = <<>>
    /\ before = [content |-> <<>>, error |-> None, raw_mode |-> FALSE]
    /\ declared = <<>>
    /\ typed = <<>>

\* Every step records the prompt state it started from.
Remember ==
    before' = [content |-> content, error |-> error, raw_mode |-> raw_mode]

(***************************************************************************)
(* The Terminal (crate::terminal, crate::renderer): raw mode is a scoped   *)
(* resource, entered when the Terminal is constructed and left when the    *)
(* Terminal, or the Renderer that owns it, goes out of scope.              *)
(***************************************************************************)
\* Terminal::new() succeeded
TerminalNew == raw_mode' = TRUE

\* The Renderer of Password::prompt, and its Terminal, are dropped.
DropRenderer == raw_mode' = FALSE

\* Mutant of ReturnToCaller: the Renderer outlives the call (a leaked or
\* stored Renderer), so nothing is dropped on return.
ReturnKeepsRenderer == UNCHANGED raw_mode

\* The prompt call returns: what Password::prompt owns is dropped; under
\* prompt_with_renderer the Renderer is the caller's and stays.
ReturnToCaller == IF raw_mode THEN DropRenderer ELSE UNCHANGED raw_mode

(***************************************************************************)
(* The builder.                                                            *)
(***************************************************************************)
with_help_message(h) ==
    /\ pc = "build"
    /\ help_message' = Some(h)
    /\ Remember
    /\ UNCHANGED <<pc, message, formatter, validators, content, error,
                   final_answer, result, raw_mode, calls, typed, declared>>

with_formatter(f) ==
    /\ pc = "build"
    /\ formatter' = f
    /\ Remember
    /\ UNCHANGED <<pc, message, help_message, validators, content, error,
                   final_answer, result, raw_mode, calls, typed, declared>>

\* Mutant of with_validator: the validator is put first.
WithValidatorFirst(v) ==
    /\ pc = "build"
    /\ Len(validators) < MaxValidators
    /\ validators' = <<v>> \o validators
    /\ declared' = Append(declared, v)
    /\ Remember
    /\ UNCHANGED <<pc, message, help_message, formatter, content, error,
                   final_answer, result, raw_mode, calls, typed>>

with_validator(v) ==
    /\ pc = "build"
    /\ Len(validators) < MaxValidators
    /\ validators' = Append(validators, v)
    /\ declared' = Append(declared, v)
    /\ Remember
    /\ UNCHANGED <<pc, message, help_message, formatter, content, error,
                   final_answer, result, raw_mode, calls, typed>>

with_validators(vs) ==
    /\ pc = "build"
    /\ Len(validators) + Len(vs) <= MaxValidators
    /\ validators' = validators \o vs
    /\ declared' = declared \o vs
    /\ Remember
    /\ UNCHANGED <<pc, message, help_message, formatter, content, error,
                   final_answer, result, raw_mode, calls, typed>>

\* prompt_with_renderer: PasswordPrompt::from(self), then the loop starts.
prompt_with_renderer ==
    /\ pc = "build"
    /\ pc' = "render"
    /\ content' = <<>>
    /\ error' = None
    /\ Remember
    /\ UNCHANGED <<message, help_message, formatter, validators,
                   final_answer, result, raw_mode, calls, typed, declared>>

\* prompt: Terminal::new()?, Renderer::new(terminal)?, prompt_with_renderer
prompt ==
    /\ pc = "build"
    /\ \/ /\ calls' = <<Call("Terminal_new", <<>>, Err(IoError))>>
          /\ pc' = "done"
          /\ result' = Err(IoError)
          /\ UNCHANGED <<raw_mode, content, error>>
       \/ /\ calls' = <<Call("Terminal_new", <<>>, Unit),
                        Call("Renderer_new", <<>>, Err(IoError))>>
          /\ pc' = "done"
          /\ result' = Err(IoError)
          /\ DropRenderer
          /\ UNCHANGED <<content, error>>
       \/ /\ calls' = <<Call("Terminal_new", <<>>, Unit),
                        Call("Renderer_new", <<>>, Unit)>>
          /\ TerminalNew
          /\ pc' = "render"
          /\ content' = <<>>
          /\ error' = None
          /\ UNCHANGED result
    /\ Remember
    /\ UNCHANGED <<message, help_message, formatter, validators,
                   final_answer, typed, declared>>

(***************************************************************************)
(* PasswordPrompt::prompt: the loop and what follows it.                   *)
(***************************************************************************)
\* self.render(renderer)?
render ==
    /\ pc = "render"
    /\ LET frame == RenderCalls(message, help_message, error)
       IN  \/ /\ calls' = frame
              /\ pc' = "read_key"
              /\ UNCHANGED <<result, raw_mode>>
           \/ \E n \in 1..Len(frame) :
                 /\ calls' = FailAt(frame, n)
                 /\ pc' = "done"
                 /\ result' = Err(IoError)
                 /\ ReturnToCaller
    /\ Remember
    /\ UNCHANGED <<message, help_message, formatter, validators, content,
                   error, final_answer, typed, declared>>

\* renderer.read_key()? fails
ReadKeyFails ==
    /\ pc = "read_key"
    /\ calls' = <<Call("read_key", <<>>, Err(IoError))>>
    /\ pc' = "done"
    /\ result' = Err(IoError)
    /\ ReturnToCaller
    /\ Remember
    /\ UNCHANGED <<message, help_message, formatter, validators, content,
                   error, final_answer, typed, declared>>

\* Mutant of MatchCancel: the cancelled question gets a cleanup frame.
MatchCancelWithCleanup(read) ==
    /\ result' = Err(OperationCanceled)
    /\ pc' = "done"
    /\ ReturnToCaller
    /\ calls' = <<read>> \o CleanupCalls(message, formatter, content)
    /\ UNCHANGED <<content, error, final_answer, typed>>

\* Mutant of MatchCancel: Cancel is read and the loop goes on.
MatchCancelIgnored(read) ==
    /\ pc' = "render"
    /\ calls' = <<read>>
    /\ UNCHANGED <<content, error, final_answer, result, raw_mode, typed>>

\* Key::Cancel => return Err(InquireError::OperationCanceled)
MatchCancel(read) ==
    /\ result' = Err(OperationCanceled)
    /\ pc' = "done"
    /\ ReturnToCaller
    /\ calls' = <<read>>
    /\ UNCHANGED <<content, error, final_answer, typed>>

\* Mutant of MatchSubmit: a rejected Submit clears the content.
MatchSubmitClears(read) ==
    LET r == get_final_answer(validators, content)
    IN  /\ calls' = <<read>> \o r.calls
        /\ IF IsOk(r.ret)
           THEN /\ final_answer' = Some(Tail(r.ret))
                /\ pc' = "cleanup"
                /\ UNCHANGED <<error, content>>
           ELSE /\ error' = Some(Tail(r.ret))
                /\ content' = <<>>
                /\ pc' = "render"
                /\ UNCHANGED final_answer
        /\ UNCHANGED <<result, raw_mode, typed>>

\* Mutant of MatchSubmit: a rejected Submit ends the prompt with the message.
MatchSubmitSurfacesError(read) ==
    LET r == get_final_answer(validators, content)
    IN  /\ calls' = <<read>> \o r.calls
        /\ IF IsOk(r.ret)
           THEN /\ final_answer' = Some(Tail(r.ret))
                /\ pc' = "cleanup"
                /\ UNCHANGED <<error, result, raw_mode>>
           ELSE /\ error' = Some(Tail(r.ret))
                /\ result' = r.ret
                /\ pc' = "done"
                /\ ReturnToCaller
                /\ UNCHANGED final_answer
        /\ UNCHANGED <<content, typed>>

\* Mutant of MatchSubmit: an error already held is not overwritten.
MatchSubmitKeepsFirstError(read) ==
    LET r == get_final_answer(validators, content)
    IN  /\ calls' = <<read>> \o r.calls
        /\ IF IsOk(r.ret)
           THEN /\ final_answer' = Some(Tail(r.ret))
                /\ pc' = "cleanup"
                /\ UNCHANGED error
           ELSE /\ error' = IF IsSome(error) THEN error ELSE Some(Tail(r.ret))
                /\ pc' = "render"
                /\ UNCHANGED final_answer
        /\ UNCHANGED <<content, result, raw_mode, typed>>

\* Key::Submit => match self.get_final_answer() { Ok => break, Err => self.error = Some(err) }
MatchSubmit(read) ==
    LET r == get_final_answer(validators, content)
    IN  /\ calls' = <<read>> \o r.calls
        /\ IF IsOk(r.ret)
           THEN /\ final_answer' = Some(Tail(r.ret))
                /\ pc' = "cleanup"
                /\ UNCHANGED error
           ELSE /\ error' = Some(Tail(r.ret))
                /\ pc' = "render"
                /\ UNCHANGED final_answer
        /\ UNCHANGED <<content, result, raw_mode, typed>>

\* Mutant of MatchOther: the content is validated on every keystroke.
MatchOtherValidates(read, key) ==
    /\ content' = on_change(content, key)
    /\ typed' = FoldKey(typed, key)
    /\ pc' = "render"
    /\ calls' = <<read>>
    /\ error' = LET r == get_final_answer(validators, on_change(content, key)).ret
                IN  IF IsErr(r) THEN Some(Tail(r)) ELSE None
    /\ UNCHANGED <<final_answer, result, raw_mode>>

\* key => self.on_change(key)
MatchOther(read, key) ==
    /\ content' = on_change(content, key)
    /\ typed' = FoldKey(typed, key)
    /\ pc' = "render"
    /\ calls' = <<read>>
    /\ UNCHANGED <<error, final_answer, result, raw_mode>>

\* renderer.read_key()? returns key, and the match on it
read_key(key) ==
    /\ pc = "read_key"
    /\ Len(on_change(content, key)) <= MaxLen
    /\ LET read == Call("read_key", <<>>, Ok(key))
       IN  IF key = Cancel THEN MatchCancel(read)
           ELSE IF key = Submit THEN MatchSubmit(read)
           ELSE MatchOther(read, key)
    /\ Remember
    /\ UNCHANGED <<message, help_message, formatter, validators, declared>>

\* Mutant of cleanup: the prompt returns the formatted text.
CleanupReturnsFormatted ==
    /\ pc = "cleanup"
    /\ pc' = "done"
    /\ ReturnToCaller
    /\ LET cs == CleanupCalls(message, formatter, Unwrap(final_answer))
       IN  \/ /\ calls' = cs
              /\ result' = Ok(Format(formatter, Unwrap(final_answer)))
           \/ /\ calls' = FailAt(cs, Len(cs))
              /\ result' = Err(IoError)
    /\ Remember
    /\ UNCHANGED <<message, help_message, formatter, validators, content,
                   error, final_answer, typed, declared>>

\* Mutant of cleanup: a failure of Renderer::cleanup is ignored.
CleanupIgnoresError ==
    /\ pc = "cleanup"
    /\ pc' = "done"
    /\ ReturnToCaller
    /\ LET cs == CleanupCalls(message, formatter, Unwrap(final_answer))
       IN  \/ /\ calls' = cs
              /\ result' = Ok(Unwrap(final_answer))
           \/ /\ calls' = FailAt(cs, Len(cs))
              /\ result' = Ok(Unwrap(final_answer))
    /\ Remember
    /\ UNCHANGED <<message, help_message, formatter, validators, content,
                   error, final_answer, typed, declared>>

\* renderer.cleanup(&self.message, &(self.formatter)(&final_answer))?; Ok(final_answer)
cleanup ==
    /\ pc = "cleanup"
    /\ pc' = "done"
    /\ ReturnToCaller
    /\ LET cs == CleanupCalls(message, formatter, Unwrap(final_answer))
       IN  \/ /\ calls' = cs
              /\ result' = Ok(Unwrap(final_answer))
           \/ /\ calls' = FailAt(cs, Len(cs))
              /\ result' = Err(IoError)
    /\ Remember
    /\ UNCHANGED <<message, help_message, formatter, validators, content,
                   error, final_answer, typed, declared>>

Next ==
    \/ \E h \in HelpTexts : with_help_message(h)
    \/ \E f \in Formatters : with_formatter(f)
    \/ \E v \in Validators : with_validator(v)
    \/ \E vs \in ValidatorSlices : with_validators(vs)
    \/ prompt_with_renderer
    \/ prompt
    \/ render
    \/ ReadKeyFails
    \/ \E key \in Keys : read_key(key)
    \/ cleanup

Spec == Init /\ [][Next]_vars

\* A key that asks the loop to end: Cancel, or a Submit the validators accept.
ExitKey ==
    \/ read_key(Cancel)
    \/ read_key(Submit) /\ pc' = "cleanup"

\* The prompt call runs on: a frame that is due is painted, the cleanup that
\* is due is made, and the key stream delivers an ExitKey at some read, if
\* the loop keeps reading.
FairSpec ==
    /\ Init
    /\ [][Next]_vars
    /\ WF_vars(render)
    /\ WF_vars(cleanup)
    /\ SF_vars(ExitKey)

(***************************************************************************)
(* Properties.                                                             *)
(***************************************************************************)
\* The key the last step read; None when the last step read no key.
KeyRead ==
    IF calls # <<>> /\ calls[1].op = "read_key" /\ IsOk(calls[1].ret)
    THEN Tail(calls[1].ret)
    ELSE None

IsPlainChar(k) == IsChar(k) /\ k[3] = "NONE"

AllAccept(c) == \A i \in 1..Len(validators) : IsOk(Validate(validators[i], c))

RendererOps ==
    {"reset_prompt", "print_error_message", "print_prompt", "print_help",
     "flush", "read_key", "cleanup"}

\* C1: a Submit consults the validators in declaration order on the content
\* it found, up to and including the first that rejects; that validator's
\* message becomes the error and the prompt goes on editing; when none
\* rejects, all were consulted and the answer is the content at that Submit.
C1_SubmitRunsValidatorsInOrder ==
    /\ KeyRead = Submit =>
          LET vc == Tail(calls)
              n == Len(vc)
          IN  /\ n <= Len(declared)
              /\ \A i \in 1..n :
                    vc[i] = Call("validator", <<<<declared[i]>>, before.content>>,
                                 Validate(declared[i], before.content))
              /\ \A i \in 1..n : i < n => IsOk(vc[i].ret)
              /\ IF n > 0 /\ IsErr(vc[n].ret)
                 THEN /\ error = Some(Tail(vc[n].ret))
                      /\ pc = "render"
                      /\ result = None
                      /\ final_answer = None
                 ELSE /\ n = Len(declared)
                      /\ pc = "cleanup"
                      /\ final_answer = Some(before.content)
    /\ IsOk(result) => Tail(result) = content /\ AllAccept(content)

\* C1 witness: the first of two validators rejected the content, and the
\* second, which would have rejected it with another message, was not run.
C1_Witness ==
    /\ KeyRead = Submit
    /\ Len(validators) = 2
    /\ Len(calls) = 2
    /\ IsErr(calls[2].ret)
    /\ error = Some(Tail(calls[2].ret))
    /\ IsErr(Validate(validators[2], content))
    /\ Validate(validators[2], content) # calls[2].ret

\* C2: a rejected Submit leaves the content as it was, and the answer of a
\* successful prompt is the fold of the Char and Backspace keys of the whole
\* session, the rejected Submits contributing nothing.
C2_RejectedSubmitKeepsContent ==
    /\ (KeyRead = Submit /\ pc = "render") =>
          content = before.content /\ content = Collect(typed)
    /\ IsOk(result) => Tail(result) = Collect(typed)

\* C2 witness: an answer of two graphemes given after a rejected Submit.
C2_Witness ==
    /\ IsOk(result)
    /\ IsSome(error)
    /\ Len(typed) = 2
    /\ Tail(result) = Collect(typed)

\* C3: a Cancel ends the prompt with OperationCanceled at once, whatever the
\* content and the error: no answer, no validator or formatter call, the
\* read_key that delivered it is the last call, and nothing follows.
C3_CancelReturnsAtOnce ==
    /\ KeyRead = Cancel =>
          /\ result = Err(OperationCanceled)
          /\ pc = "done"
          /\ Len(calls) = 1
          /\ final_answer = None
          /\ content = before.content
          /\ error = before.error
    /\ result = Err(OperationCanceled) => KeyRead = Cancel /\ ~ENABLED Next

\* C3 witness: cancelled with content typed and an error showing.
C3_Witness ==
    /\ result = Err(OperationCanceled)
    /\ content # <<>>
    /\ IsSome(error)

\* C4: Backspace on a non-empty content removes exactly its last grapheme
\* cluster (one grapheme fewer, the rest a prefix of what was there); on an
\* empty content it changes nothing; either way the prompt goes on editing.
C4_BackspaceRemovesLastGrapheme ==
    KeyRead = Backspace =>
        /\ pc = "render"
        /\ result = None
        /\ IF before.content = <<>>
           THEN content = <<>>
           ELSE LET gs == Graphemes(before.content)
                IN  /\ Len(Graphemes(content)) = Len(gs) - 1
                    /\ Len(content) < Len(before.content)
                    /\ content = SubSeq(before.content, 1, Len(content))
                    /\ SubSeq(before.content, Len(content) + 1, Len(before.content))
                          = gs[Len(gs)]

\* C4 witness: a Backspace removed a grapheme of two code points and left
\* the grapheme before it.
C4_Witness ==
    /\ KeyRead = Backspace
    /\ Len(before.content) = 3
    /\ Len(Graphemes(before.content)) = 2
    /\ Len(content) = 1

\* C5: while editing, the content is the fold of "append" and "drop the last
\* grapheme, if any" over the keys read, and its grapheme clusters are the
\* folded list: code points that combine are one unit for deletion.
C5_ContentIsFoldOfKeys ==
    pc \in {"render", "read_key"} =>
        /\ content = Collect(typed)
        /\ Graphemes(content) = typed

\* C5 witness: one Backspace removed an emoji joined from three Char keys.
C5_Witness ==
    /\ KeyRead = Backspace
    /\ before.content = <<"e", "j", "e">>
    /\ content = <<>>
    /\ typed = <<>>

\* C6: a successful prompt returns the content of the accepting Submit; the
\* formatter is called only after such a Submit, on that content, and its
\* result goes to cleanup and nowhere else.
C6_AnswerIsRawContent ==
    /\ IsOk(result) =>
          /\ Tail(result) = content
          /\ final_answer = Some(content)
          /\ AllAccept(content)
    /\ \A i \in DOMAIN calls :
          calls[i].op = "formatter" =>
              /\ pc = "done"
              /\ i = 1
              /\ Len(calls) = 2
              /\ calls[1].args = <<content>>
              /\ calls[2].op = "cleanup"
              /\ calls[2].args[2] = calls[1].ret
              /\ AllAccept(content)

\* C6 witness: a validated, non-empty answer returned under the default mask.
C6_Witness ==
    /\ IsOk(result)
    /\ formatter = "DEFAULT_FORMATTER"
    /\ validators # <<>>
    /\ content # <<>>
    /\ Tail(result) # calls[1].ret

\* C7: no Renderer call of a frame carries the content (the question line is
\* printed with no default and no preview), and cleanup is given the
\* formatter's text: the content is an argument of a Renderer call only
\* where the caller's own formatter returned it.
C7_ContentNeverPainted ==
    \A i \in DOMAIN calls :
        /\ calls[i].op = "print_prompt" => calls[i].args = <<message, None, None>>
        /\ calls[i].op = "cleanup" =>
              calls[i].args = <<message, Format(formatter, content)>>
        /\ calls[i].op \in RendererOps =>
              \A a \in DOMAIN calls[i].args :
                  calls[i].args[a] = content =>
                      calls[i].op = "cleanup" /\ formatter = "ECHO"

\* C7 witness: the cleanup frame of a non-empty answer, painted with a text
\* that is not the answer.
C7_Witness ==
    /\ pc = "done"
    /\ Len(calls) = 2
    /\ calls[2].op = "cleanup"
    /\ IsOk(calls[2].ret)
    /\ content # <<>>
    /\ calls[2].args[2] # content

Mask == <<"*", "*", "*", "*", "*", "*", "*", "*">>

\* What the terminal sees of a call: not the key read_key returned.
View(op, args, ok) == [op |-> op, args |-> args, ok |-> ok]

IsRendererCall(c) == c.op \in RendererOps

RendererView ==
    LET cs == SelectSeq(calls, IsRendererCall)
    IN  [i \in 1..Len(cs) |-> View(cs[i].op, cs[i].args, IsOk(cs[i].ret))]

\* The frame as the message, the help message and the error determine it.
PublicFrame ==
    <<View("reset_prompt", <<>>, TRUE)>>
      \o (IF error = None THEN <<>>
          ELSE <<View("print_error_message", <<Tail(error)>>, TRUE)>>)
      \o <<View("print_prompt", <<message, None, None>>, TRUE)>>
      \o (IF help_message = None THEN <<>>
          ELSE <<View("print_help", <<Tail(help_message)>>, TRUE)>>)
      \o <<View("flush", <<>>, TRUE)>>

\* The Renderer calls one step can make, none of them a function of the
\* characters typed.
PublicViews ==
    {<<>>, PublicFrame}
      \cup {[i \in 1..n |-> IF i = n THEN [PublicFrame[i] EXCEPT !.ok = FALSE]
                            ELSE PublicFrame[i]] : n \in 1..Len(PublicFrame)}
      \cup {<<View("read_key", <<>>, ok)>> : ok \in BOOLEAN}
      \cup {<<View("cleanup", <<message, Mask>>, ok)>> : ok \in BOOLEAN}

\* C8: under the default formatter cleanup paints "********", and the
\* Renderer calls of every step are determined by the message, the help
\* message and the error: runs that differ only in the characters typed make
\* the same calls, which show neither the password nor its length.
C8_DefaultMaskHidesContent ==
    formatter = "DEFAULT_FORMATTER" => RendererView \in PublicViews

\* C8 witness: a three-code-point answer was committed under the default
\* formatter and cleanup painted the eight stars.
C8_Witness ==
    /\ formatter = "DEFAULT_FORMATTER"
    /\ IsOk(result)
    /\ Len(content) = 3
    /\ RendererView = <<View("cleanup", <<message, Mask>>, TRUE)>>

\* C9: Char(c, NONE) appends c to the content; a Char with another modifier
\* and every key that is not Cancel, Submit or Backspace changes neither the
\* content nor the error; in both cases the prompt goes on editing.
C9_CharAppendsOtherKeysIgnored ==
    LET k == KeyRead
    IN  /\ IsPlainChar(k) =>
              /\ content = Append(before.content, k[2])
              /\ error = before.error
              /\ pc = "render"
              /\ result = None
        /\ (k # None /\ k \notin {Cancel, Submit, Backspace} /\ ~IsPlainChar(k)) =>
              /\ content = before.content
              /\ error = before.error
              /\ pc = "render"
              /\ result = None

\* C9 witness: a Char with CONTROL read with content typed and an error set.
C9_Witness ==
    /\ KeyRead = Char("a", "CONTROL")
    /\ content # <<>>
    /\ IsSome(error)
    /\ pc = "render"

\* C10: validators are called only by the step that reads a Submit; the
\* error changes only in such a step, to Some message; a frame prints at
\* most one error line, the error held.
C10_ValidatorsRunOnlyAtSubmit ==
    /\ (\E i \in DOMAIN calls : calls[i].op = "validator") => KeyRead = Submit
    /\ error # before.error =>
          /\ KeyRead = Submit
          /\ pc = "render"
          /\ IsSome(error)
    /\ Cardinality({i \in DOMAIN calls : calls[i].op = "print_error_message"}) <= 1
    /\ \A i \in DOMAIN calls :
          calls[i].op = "print_error_message" =>
              IsSome(error) /\ calls[i].args = <<Unwrap(error)>>

\* C10 witness: a Char key made the content acceptable and the error of the
\* earlier rejected Submit is still held: no validator ran.
C10_Witness ==
    /\ IsPlainChar(KeyRead)
    /\ IsSome(error)
    /\ validators # <<>>
    /\ AllAccept(content)
    /\ ~AllAccept(before.content)

\* The last step made a read_key call (which returned a key or failed).
ReadStep == calls # <<>> /\ calls[1].op = "read_key"

\* C11: a read_key call is made only when the step before it painted one
\* complete frame: reset_prompt, the error line iff an error is held, the
\* question line, the help line iff a help message is configured, flush, in
\* this order, with the error the key before left; and the step after a key
\* that does not end the loop paints a frame again: frames and key reads
\* alternate.
C11_FrameBeforeEveryKey ==
    [][/\ ReadStep' =>
              /\ pc = "read_key"
              /\ RendererView = PublicFrame
              /\ error = before.error
       /\ pc = "read_key" => ReadStep'
       /\ (ReadStep /\ pc = "render") =>
              /\ ~ReadStep'
              /\ calls'[1].op = "reset_prompt"
              /\ error' = error]_vars

\* C11 witness: the frame before a key, painted with the error line of the
\* Submit rejected before and with the help line, five calls in all.
C11_Witness ==
    /\ pc = "read_key"
    /\ IsSome(error)
    /\ IsSome(help_message)
    /\ Len(calls) = 5
    /\ RendererView = PublicFrame

\* C12: with no validators no Submit is rejected and no error is ever held:
\* the first Submit is accepted with the content typed so far, the empty
\* string when it is the first key.
C12_NoValidatorsFirstSubmitSucceeds ==
    validators = <<>> =>
        /\ error = None
        /\ KeyRead = Submit =>
              /\ pc = "cleanup"
              /\ final_answer = Some(Collect(typed))
        /\ IsOk(result) => Tail(result) = Collect(typed)

\* C12 witness: no validators, Submit was the first key, the answer is "".
C12_Witness ==
    /\ validators = <<>>
    /\ typed = <<>>
    /\ result = Ok(<<>>)

\* C13: a finished run has exactly one outcome: the answer, which only an
\* accepted Submit produces, OperationCanceled, or the I/O error; nothing
\* follows it.  A rejected Submit is no outcome: the prompt goes on editing
\* with the error held, and the message never is the value returned.
C13_ThreeOutcomes ==
    /\ (pc = "done") = (result # None)
    /\ pc = "done" =>
          /\ \/ result = Ok(content) /\ final_answer = Some(content)
                    /\ AllAccept(content)
             \/ result = Err(OperationCanceled)
             \/ result = Err(IoError)
          /\ ~ENABLED Next
    /\ (pc = "cleanup" \/ IsSome(final_answer)) =>
          /\ AllAccept(content)
          /\ final_answer = Some(content)
    /\ pc = "cleanup" => KeyRead = Submit
    /\ (KeyRead = Submit /\ ~AllAccept(content)) =>
          /\ pc = "render"
          /\ result = None
          /\ IsSome(error)

\* C13 witness: an answer returned by a prompt that had rejected a Submit.
C13_Witness ==
    /\ IsOk(result)
    /\ IsSome(error)
    /\ Len(validators) = 2
    /\ pc = "done"

\* C14: a Renderer call that fails is the last call of the run: the prompt
\* returns the I/O error, which is neither OperationCanceled nor a validator
\* message, and no answer, also when the call is the cleanup that follows an
\* accepted Submit; and the I/O error is returned only for a failed call.
C14_IoFailureIsFatal ==
    /\ \A i \in DOMAIN calls :
          (IsRendererCall(calls[i]) /\ IsErr(calls[i].ret)) =>
              /\ i = Len(calls)
              /\ pc = "done"
              /\ result = Err(IoError)
              /\ ~ENABLED Next
    /\ result = Err(IoError) =>
          /\ calls # <<>>
          /\ IsErr(calls[Len(calls)].ret)
          /\ ~IsOk(result)
          /\ result # Err(OperationCanceled)
          /\ \A v \in Validators, c \in {content, before.content} :
                result # Validate(v, c)

\* C14 witness: cleanup failed after an accepted Submit; no answer returned.
C14_Witness ==
    /\ result = Err(IoError)
    /\ IsSome(final_answer)
    /\ calls[Len(calls)].op = "cleanup"
    /\ IsErr(calls[Len(calls)].ret)

\* C15: the raw mode Password::prompt enters is on only while its prompt
\* runs: it is off before the call and off again once the call has returned,
\* with the answer, with OperationCanceled, with an I/O error of the loop or
\* of cleanup, or because the Renderer could not be constructed.
C15_RawModeRestoredOnEveryExit ==
    /\ pc \in {"build", "done"} => ~raw_mode
    /\ raw_mode => pc \in {"render", "read_key", "cleanup"}
    /\ (calls # <<>> /\ calls[Len(calls)].op = "Renderer_new"
            /\ IsErr(calls[Len(calls)].ret)) =>
          /\ pc = "done"
          /\ ~raw_mode

\* C15 witness: a prompt running in raw mode ended with an I/O error.
C15_Witness ==
    /\ pc = "done"
    /\ before.raw_mode
    /\ ~raw_mode
    /\ result = Err(IoError)

\* The message of the first validator, in order, that rejects c.
FirstRejection(c) ==
    LET I == {i \in 1..Len(validators) : IsErr(Validate(validators[i], c))}
        first == CHOOSE i \in I : \A j \in I : i <= j
    IN  Tail(Validate(validators[first], c))

\* C16 as stated: an accepted Submit leaves no error behind.
C16_ErrorClearedByAcceptedSubmit ==
    (KeyRead = Submit /\ AllAccept(content)) => error = None

\* C16 (amended): error is unset when the prompt starts; a rejected Submit
\* sets it to the message of the rejection, whatever it held; every other
\* step, the accepted Submit included, leaves it as it was; and every frame
\* painted for the next key shows the error line exactly when error is set,
\* with the held message.
C16_ErrorHeldUntilNextRejection ==
    /\ pc = "build" => error = None
    /\ (pc = "render" /\ KeyRead = None) => error = None
    /\ (KeyRead = Submit /\ ~AllAccept(content)) =>
          error = Some(FirstRejection(content))
    /\ (KeyRead = Submit /\ AllAccept(content)) => error = before.error
    /\ (KeyRead # None /\ KeyRead # Submit) => error = before.error
    /\ pc \in {"read_key", "cleanup", "done"} => error = before.error
    /\ pc = "read_key" =>
          /\ IsSome(error) =>
                \E i \in DOMAIN calls :
                    calls[i] = Call("print_error_message",
                                    <<Unwrap(error)>>, Unit)
          /\ error = None =>
                \A i \in DOMAIN calls : calls[i].op # "print_error_message"

\* C16 witness: an accepted Submit found an error held and left it.
C16_Witness ==
    /\ KeyRead = Submit
    /\ pc = "cleanup"
    /\ IsSome(error)

\* C17: an accepted Submit makes no Renderer call of its own, and what
\* follows it is one Renderer call, cleanup with the message and the
\* formatter's rendering of the answer; then the prompt has returned and
\* reads no further key.
C17_OnlyCleanupAfterAcceptedSubmit ==
    /\ pc = "cleanup" =>
          /\ KeyRead = Submit
          /\ Len(RendererView) = 1
    /\ (pc = "done" /\ IsSome(final_answer)) =>
          /\ \E ok \in BOOLEAN :
                RendererView =
                    <<View("cleanup",
                           <<message, Format(formatter, content)>>, ok)>>
          /\ \A key \in Keys : ~ENABLED read_key(key)
          /\ ~ENABLED render
          /\ ~ENABLED cleanup

\* C17 witness: cleanup succeeded for a prompt with a help message and an
\* error held, neither of which was painted again.
C17_Witness ==
    /\ pc = "done"
    /\ IsOk(result)
    /\ IsSome(help_message)
    /\ IsSome(error)
    /\ formatter = "ECHO"

InLoop == pc \in {"render", "read_key"}

\* C18: a step leaves the loop only on Cancel, on a Submit every validator
\* accepts, or on an I/O error; a rejected Submit goes back to the frame
\* however many were rejected before; and a loop whose frames are painted and
\* whose key stream delivers a Cancel or an accepted Submit comes to its end.
C18_LoopEndsOnlyByExitKeyAndDoesEnd ==
    /\ [][/\ (InLoop /\ ~InLoop') =>
                \/ KeyRead' = Cancel /\ result' = Err(OperationCanceled)
                \/ KeyRead' = Submit /\ AllAccept(content) /\ pc' = "cleanup"
                \/ result' = Err(IoError) /\ IsErr(calls'[Len(calls')].ret)
          /\ (KeyRead' = Submit /\ ~AllAccept(content)) =>
                /\ pc' = "render"
                /\ result' = None]_vars
    /\ (pc = "render") ~> (pc = "done")

\* C18 witness: a Submit was rejected with an error already held from an
\* earlier rejection, and the loop goes on.
C18_Witness ==
    /\ KeyRead = Submit
    /\ pc = "render"
    /\ IsSome(before.error)
    /\ result = None

====
